---- MODULE Spec2Model ----
(***************************************************************************)
(* Model of the podman upgrade orchestration of uyuni-tools (mgradm).      *)
(*                                                                         *)
(* The module follows src/mgradm/shared/podman/podman.go: Upgrade and the  *)
(* helper functions it calls (Inspect, RunPgsqlVersionUpgrade,             *)
(* RunPgsqlFinalizeScript, RunPostUpgradeScript).  External collaborators  *)
(* (podman, systemd, the filesystem) answer nondeterministically with      *)
(* success or failure.  Strings of digits are sequences of digits, and     *)
(* they are compared the way Go compares strings: byte by byte.            *)
(***************************************************************************)
EXTENDS Integers, Sequences, FiniteSets, TLC

(***************************************************************************)
(* Bounds of the model.                                                    *)
(***************************************************************************)
\* PostgreSQL major versions the inspection may report: MinPgVersion..MaxPgVersion.
MinPgVersion == 8

MaxPgVersion == 11

\* Release identifiers are 1..MaxRelease.
MaxRelease == 2

\* The number of kubernetes operations and pod events of a run.
MaxKubeCalls == 3

\* The longest registry host name of an image reference, in characters.
MaxHostLen == 2

\* The number of commands run against one deployment.
MaxCommands == 2

\* The number of lines the user types at one prompt.
MaxInputs == 3

(***************************************************************************)
(* Strings.                                                                *)
(***************************************************************************)
\* The decimal text of a natural number, as the inspection script writes it.
RECURSIVE Dec(_)
Dec(n) == IF n < 10 THEN <<n>> ELSE Append(Dec(n \div 10), n % 10)

\* The number a string of digits denotes (0 for the empty string).
RECURSIVE NumVal(_)
NumVal(s) == IF s = <<>> THEN 0 ELSE 10 * NumVal(SubSeq(s, 1, Len(s) - 1)) + s[Len(s)]

\* Go's < on strings: lexicographic comparison of the bytes.
RECURSIVE StrLess(_, _)
StrLess(a, b) ==
    IF b = <<>> THEN FALSE
    ELSE IF a = <<>> THEN TRUE
    ELSE IF a[1] # b[1] THEN a[1] < b[1]
    ELSE StrLess(Tail(a), Tail(b))

\* Go's > on strings.
StrGreater(a, b) == StrLess(b, a)

\* The empty string.
EmptyStr == <<>>

PgVersions == {Dec(n) : n \in MinPgVersion..MaxPgVersion}

Releases == 1..MaxRelease

(***************************************************************************)
(* The facts mapping (map[string]string).                                  *)
(***************************************************************************)
FactKeys == {"current_pg_version", "image_pg_version", "uyuni_release"}

\* m[k] of a Go map: the zero value "" when the key is absent.
Get(m, k) == IF k \in DOMAIN m THEN m[k] ELSE EmptyStr

\* The mappings ReadInspectData may return: any subset of the keys may be there.
FactsOf(d) ==
    [d -> PgVersions \cup {Dec(r) : r \in Releases}]

InspectResults ==
    {m \in UNION {FactsOf(d) : d \in SUBSET FactKeys} :
        /\ \A k \in DOMAIN m \cap {"current_pg_version", "image_pg_version"} : m[k] \in PgVersions
        /\ \A k \in DOMAIN m \cap {"uyuni_release"} : m[k] \in {Dec(r) : r \in Releases}}

\* map[string]string{}
EmptyMap == <<>>

(***************************************************************************)
(* Errors.                                                                 *)
(***************************************************************************)
\* fmt.Errorf(msg, cause); cause is "" when the format has no %s
Err(msg, cause) == [msg |-> msg, cause |-> cause]

\* the nil error
Nil == [msg |-> "nil", cause |-> ""]

\* No value yet: the function has not reached a return statement.
Pending == [msg |-> "pending", cause |-> ""]

\* An event of the run: a call to a collaborator and whether it succeeded.
Event(op, ok) == [op |-> op, ok |-> ok]

VARIABLES
    pc,               \* position of Upgrade
    inspectedValues,  \* Upgrade's inspectedValues
    currentRelease,   \* release identifier of the deployed server
    err,              \* Upgrade's local variable err
    result,           \* the value of Upgrade's (unnamed) result
    deferArmed,       \* the deferred StartService closure is registered
    trace,            \* the calls made so far, in order
    serviceRunning,   \* the systemd service is active
    systemdImage,     \* UYUNI_IMAGE of the systemd configuration
    finalizeArgs,     \* schemaUpdateRequired of each RunPgsqlFinalizeScript call
    fnState,          \* position inside the helper function being run
    scriptDir,        \* scriptDir of the helper function being run
    dirs,             \* the temporary directories that exist
    nextDir,          \* the name os.MkdirTemp gives to the next directory
    creator,          \* for each directory ever created, the function that created it
    mounts,           \* the bundle directory mounted into each helper container
    pulls,            \* the calls of podman.PrepareImage, with their pull arguments
    migrationArgs,    \* extraArgs given to the uyuni-migration container
    migrationData,    \* the values RunMigration returns
    kube,             \* the cluster: replicas asked for, and whether GetNode finds a pod
    kubeLog,          \* the kubernetes operations and pod events so far
    image,            \* the image flags: the reference's name and the tag
    computed,         \* the last call of utils.ComputeImage and what it returned
    inspection,       \* the run of the inspect command and what it returned
    deployment,       \* the build, the --backend flag and which backends run a server
    cmdLog,           \* the commands run: the probes, the closure chosen and run, the error
    ask,              \* the call of AskIfMissing or AskPasswordIfMissing: its arguments
    askValue,         \* *value
    askLog,           \* the lines read at the prompt and the message each one got
    askDone,          \* whether the function has returned
    extraction,       \* extract: where it is, the files here and there, its result
    extractLog        \* extract: the calls made so far

\* the state of the bundle directories
bundleVars == <<fnState, scriptDir, dirs, nextDir, creator, mounts>>

\* the state only RunMigration writes
migrationVars == <<migrationArgs, migrationData>>

\* the state of the podman functions (Upgrade, RunMigration)
podmanVars == <<pc, inspectedValues, currentRelease, err, result, deferArmed, trace,
                serviceRunning, systemdImage, finalizeArgs, bundleVars, pulls, migrationVars>>

\* the state of the kubernetes functions
kubeVars == <<kube, kubeLog>>

\* the state of the image computation
imageVars == <<image, computed, inspection>>

\* the state of the backend selection
selectVars == <<deployment, cmdLog>>

\* the state of the prompt
askVars == <<ask, askValue, askLog, askDone>>

\* the state of the support config extraction
extractVars == <<extraction, extractLog>>

\* the state the support config extraction leaves alone
notExtractVars == <<podmanVars, kubeVars, imageVars, selectVars, askVars>>

\* the state the podman functions leave alone
restVars == <<kubeVars, imageVars, selectVars, askVars, extractVars>>

\* the state the kubernetes functions leave alone
notKubeVars == <<podmanVars, imageVars, selectVars, askVars, extractVars>>

\* the state the image computation leaves alone
notImageVars == <<podmanVars, kubeVars, selectVars, askVars, extractVars>>

\* the state the backend selection leaves alone
notSelectVars == <<podmanVars, kubeVars, imageVars, askVars, extractVars>>

\* the state the prompt leaves alone
notAskVars == <<podmanVars, kubeVars, imageVars, selectVars, extractVars>>

vars == <<podmanVars, restVars>>

\* "" as the name of a directory: os.MkdirTemp failed
NoDir == 0

\* what RunMigration returns beside the error when it fails: "", "", ""
NoMigrationData == [tz |-> "", oldPgVersion |-> EmptyStr, newPgVersion |-> EmptyStr]

\* No kubernetes operation is run: a cluster without a deployment.
KubeIdle ==
    /\ kube = [replicas |-> 0, pod |-> FALSE]
    /\ kubeLog = <<>>

\* No image reference is computed.
ImageIdle ==
    /\ image = [parts |-> <<>>, name |-> <<>>, tag |-> <<>>]
    /\ computed = <<>>
    /\ inspection = <<>>

\* No command is run.
SelectIdle ==
    /\ deployment = [built |-> TRUE, backend |-> "", podman |-> FALSE, kubectl |-> FALSE]
    /\ cmdLog = <<>>

\* No support config is extracted.
ExtractIdle ==
    /\ extraction = <<>>
    /\ extractLog = <<>>

\* Nothing is asked.
AskIdle ==
    /\ ask = <<>>
    /\ askValue = <<>>
    /\ askLog = <<>>
    /\ askDone = FALSE

\* The podman functions before their first step, at entry point `entry'.
PodmanInit(entries, releases) ==
    /\ pc \in entries
    /\ inspectedValues = EmptyMap
    /\ currentRelease \in releases
    /\ err = Nil
    /\ result = Pending
    /\ deferArmed = FALSE
    /\ trace = <<>>
    /\ serviceRunning = TRUE
    /\ systemdImage = "deployed"
    /\ finalizeArgs = {}
    /\ fnState = "call"
    /\ scriptDir = NoDir
    /\ dirs = {}
    /\ nextDir = 1
    /\ creator = <<>>
    /\ mounts = <<>>
    /\ pulls = <<>>
    /\ migrationArgs = <<>>
    /\ migrationData = NoMigrationData

\* The run is one call of Upgrade or one call of RunMigration.
Init ==
    /\ PodmanInit({"ComputeImage", "RunMigration"}, {Dec(r) : r \in Releases})
    /\ KubeIdle
    /\ ImageIdle
    /\ SelectIdle
    /\ AskIdle
    /\ ExtractIdle


(***************************************************************************)
(* The helper functions.  Each one is modelled whole: `o' is the first     *)
(* call that fails in it ("ok" when none does).  The result is the error   *)
(* returned and the collaborator calls the run has made.                   *)
(***************************************************************************)
Ret(e, events) == [err |-> e, events |-> events]

InspectOutcomes == {"mkdir", "host", "pull", "script", "run", "read", "ok"}

\* An Inspect that hands out what was parsed so far when the reading fails.
Inspect_PartialOnReadError(o, m) ==
    CASE o = "mkdir"  -> [values |-> EmptyMap, err |-> Err("failed to create temporary directory %s", "MkdirTemp"), events |-> <<>>]
      [] o = "host"   -> [values |-> EmptyMap, err |-> Err("cannot inspect host values: %s", "InspectHost"), events |-> <<>>]
      [] o = "pull"   -> [values |-> EmptyMap, err |-> Err("PrepareImage", ""), events |-> <<>>]
      [] o = "script" -> [values |-> EmptyMap, err |-> Err("GenerateInspectContainerScript", ""), events |-> <<>>]
      [] o = "run"    -> [values |-> EmptyMap, err |-> Err("RunContainer", ""),
                          events |-> <<Event("uyuni-inspect", FALSE)>>]
      [] o = "read"   -> [values |-> m, err |-> Err("cannot inspect data. %s", "ReadInspectData"),
                          events |-> <<Event("uyuni-inspect", TRUE)>>]
      [] o = "ok"     -> [values |-> m, err |-> Nil, events |-> <<Event("uyuni-inspect", TRUE)>>]

\* Inspect(serverImage, pullPolicy); m is what ReadInspectData parses.
Inspect(o, m) ==
    CASE o = "mkdir"  -> [values |-> EmptyMap, err |-> Err("failed to create temporary directory %s", "MkdirTemp"), events |-> <<>>]
      [] o = "host"   -> [values |-> EmptyMap, err |-> Err("cannot inspect host values: %s", "InspectHost"), events |-> <<>>]
      [] o = "pull"   -> [values |-> EmptyMap, err |-> Err("PrepareImage", ""), events |-> <<>>]
      [] o = "script" -> [values |-> EmptyMap, err |-> Err("GenerateInspectContainerScript", ""), events |-> <<>>]
      [] o = "run"    -> [values |-> EmptyMap, err |-> Err("RunContainer", ""),
                          events |-> <<Event("uyuni-inspect", FALSE)>>]
      [] o = "read"   -> [values |-> EmptyMap, err |-> Err("cannot inspect data. %s", "ReadInspectData"),
                          events |-> <<Event("uyuni-inspect", TRUE)>>]
      [] o = "ok"     -> [values |-> m, err |-> Nil, events |-> <<Event("uyuni-inspect", TRUE)>>]

PgsqlVersionUpgradeOutcomes == {"mkdir", "image", "host", "pull", "script", "run", "ok"}

\* RunPgsqlVersionUpgrade(image, migrationImage, oldPgsql, newPgsql)
RunPgsqlVersionUpgrade(oldPgsql, newPgsql, o) ==
    IF o = "mkdir" THEN Ret(Err("failed to create temporary directory: %s", "MkdirTemp"), <<>>)
    ELSE IF ~StrGreater(newPgsql, oldPgsql) THEN Ret(Nil, <<>>)
    ELSE CASE o = "image"  -> Ret(Err("failed to compute image URL: %s", "ComputeImage"), <<>>)
           [] o = "host"   -> Ret(Err("cannot inspect host values: %s", "InspectHost"), <<>>)
           [] o = "pull"   -> Ret(Err("PrepareImage", ""), <<>>)
           [] o = "script" -> Ret(Err("cannot generate PostgreSQL database version upgrade script %s",
                                      "GeneratePgsqlVersionUpgradeScript"), <<>>)
           [] o = "run"    -> Ret(Err("RunContainer", ""), <<Event("uyuni-upgrade-pgsql", FALSE)>>)
           [] o = "ok"     -> Ret(Nil, <<Event("uyuni-upgrade-pgsql", TRUE)>>)

ScriptOutcomes == {"mkdir", "script", "run", "ok"}

\* RunPgsqlFinalizeScript(serverImage, schemaUpdateRequired)
RunPgsqlFinalizeScript(o) ==
    CASE o = "mkdir"  -> Ret(Err("failed to create temporary directory: %s", "MkdirTemp"), <<>>)
      [] o = "script" -> Ret(Err("cannot generate PostgreSQL finalization script: %s",
                                 "GenerateFinalizePostgresScript"), <<>>)
      [] o = "run"    -> Ret(Err("RunContainer", ""), <<Event("uyuni-finalize-pgsql", FALSE)>>)
      [] o = "ok"     -> Ret(Nil, <<Event("uyuni-finalize-pgsql", TRUE)>>)

\* RunPostUpgradeScript(serverImage)
RunPostUpgradeScript(o) ==
    CASE o = "mkdir"  -> Ret(Err("failed to create temporary directory: %s", "MkdirTemp"), <<>>)
      [] o = "script" -> Ret(Err("cannot generate PostgreSQL finalization script: %s",
                                 "GeneratePostUpgradeScript"), <<>>)
      [] o = "run"    -> Ret(Err("RunContainer", ""), <<Event("uyuni-post-upgrade", FALSE)>>)
      [] o = "ok"     -> Ret(Nil, <<Event("uyuni-post-upgrade", TRUE)>>)

(***************************************************************************)
(* Upgrade.                                                                *)
(***************************************************************************)
\* The branch taken by the if / else if / else on the two version strings.
DbDecision(imagePg, currentPg) ==
    IF StrGreater(imagePg, currentPg) THEN "upgrade"
    ELSE IF imagePg = currentPg THEN "same"
    ELSE "downgrade"

\* schemaUpdateRequired, as Upgrade computes it.
SchemaUpdateRequired(values) ==
    Get(values, "current_pg_version") # Get(values, "image_pg_version")

\* A restart that is only reached on the success path (no defer).
AfterReturn_OnlyOnSuccess(armed, e) == IF armed /\ e = Nil THEN "deferred" ELSE "done"

\* Where a return statement leads: to the deferred closure when one is
\* registered, otherwise out of the function.
AfterReturn(armed, e) == IF armed THEN "deferred" ELSE "done"

\* A named result, which the closure's assignment would overwrite.
DeferredResult_Named(res, startErr) == startErr

\* The value Upgrade hands to its caller once the deferred closure has run.
\* The result is unnamed: the closure's assignment to err does not reach it.
DeferredResult(res, startErr) == res

\* The step that follows a successful stop of the service.
AfterStopService == "Plan"

\* The defer statement moved before the stop of the service.
ArmsDefer_Always(stopped) == TRUE

\* the defer statement comes after the return on a failed StopService
ArmsDefer(stopped) == stopped

\* The error of the version upgrade only kept: the finalize script is run.
AfterDbUpgradeError_GoOn(armed, e) == "RunPgsqlFinalizeScript"

\* The step that follows a failed RunPgsqlVersionUpgrade: the error is returned.
AfterDbUpgradeError(armed, e) == AfterReturn(armed, e)

\* The post-upgrade script left out: the image reference is written at once.
AfterFinalize_SkipPostUpgrade == "GenerateSystemdConfFile"

\* The step that follows a successful finalize script.
AfterFinalize == "RunPostUpgradeScript"

\* A failed post-upgrade container is launched a second time (one retry):
\* the trace read here is the one before the failed launch is recorded.
AfterPostUpgradeError_Retry(armed, e) ==
    IF e.cause = "RunContainer" /\ \A i \in DOMAIN trace : trace[i].op # "uyuni-post-upgrade"
    THEN "RunPostUpgradeScript"
    ELSE AfterReturn(armed, e)

\* The step that follows a failed post-upgrade script: the error is returned.
AfterPostUpgradeError(armed, e) == AfterReturn(armed, e)

\* return e
Return(e) ==
    /\ result' = e
    /\ pc' = AfterReturn(deferArmed, e)

Log(events) == trace' = trace \o events

(***************************************************************************)
(* Host facts and pull arguments.                                          *)
(***************************************************************************)
HostKeys == {"host_scc_username", "host_scc_password"}

\* The mappings utils.InspectHost may return: each key may be there or not.
HostFacts ==
    {[k \in d |-> IF k = "host_scc_username" THEN "user" ELSE "password"] : d \in SUBSET HostKeys}

\* pullArgs: "--creds", user + ":" + password when both keys are there
PullArgs(hostValues) ==
    IF "host_scc_username" \in DOMAIN hostValues /\ "host_scc_password" \in DOMAIN hostValues
    THEN <<"--creds", hostValues["host_scc_username"], ":", hostValues["host_scc_password"]>>
    ELSE <<>>

\* The calls of each function that may fail, in the order of the code.
InspectOrder == <<"mkdir", "host", "pull", "script", "run", "read">>

PgsqlVersionUpgradeOrder == <<"mkdir", "image", "host", "pull", "script", "run">>

MigrationOrder == <<"generate", "host", "pull", "run", "read">>

\* The call `step' is made in a run of the function whose first failing call is o.
Reached(order, o, step) ==
    \/ o = "ok"
    \/ \E i, j \in DOMAIN order : order[i] = o /\ order[j] = step /\ j <= i

\* podman.PrepareImage(image, pullPolicy, pullArgs...), when the run gets there
Pull(fn, order, o, hostValues) ==
    pulls' = IF Reached(order, o, "pull")
             THEN Append(pulls, [fn |-> fn, host |-> DOMAIN hostValues, args |-> PullArgs(hostValues)])
             ELSE pulls

(***************************************************************************)
(* Bundle directories.  os.RemoveAll is taken to succeed.                  *)
(***************************************************************************)
\* One directory name for every bundle.
FreshDir_Fixed(next) == 1

\* os.MkdirTemp("", "mgradm-*"): a name no other directory has
FreshDir(next) == next

\* scriptDir, err := os.MkdirTemp("", "mgradm-*") in function fn
MkdirTemp(fn, ok) ==
    IF ok
    THEN LET d == FreshDir(nextDir) IN
         /\ scriptDir' = d
         /\ dirs' = dirs \cup {d}
         /\ nextDir' = nextDir + 1
         /\ creator' = [x \in DOMAIN creator \cup {d} |-> IF x = d THEN fn ELSE creator[x]]
         /\ fnState' = "mkdirOk"
    ELSE /\ scriptDir' = NoDir
         /\ fnState' = "mkdirFailed"
         /\ UNCHANGED <<dirs, nextDir, creator>>

\* The outcomes left to a function once os.MkdirTemp has answered.
OutcomesAfter(outcomes) ==
    IF fnState = "mkdirFailed" THEN {"mkdir"} ELSE outcomes \ {"mkdir"}

\* A removal at the end of the success path only.
DeferredRemoveAll_OnSuccess(ds, d, e) == IF e = Nil THEN ds \ {d} ELSE ds

\* defer os.RemoveAll(scriptDir): the directories left when the function returns
DeferredRemoveAll(ds, d, e) == ds \ {d}

\* "-v", scriptDir + ":..." of the containers the function has run, and its return
Leave(r) ==
    /\ mounts' = mounts \o [i \in DOMAIN r.events |-> [container |-> r.events[i].op, dir |-> scriptDir]]
    /\ dirs' = DeferredRemoveAll(dirs, scriptDir, r.err)
    /\ scriptDir' = NoDir
    /\ fnState' = "call"
    /\ UNCHANGED <<nextDir, creator>>

\* serverImage, err := utils.ComputeImage(image.Name, image.Tag)
Upgrade_ComputeImage ==
    /\ pc = "ComputeImage"
    /\ UNCHANGED <<bundleVars, pulls, migrationVars, restVars>>
    /\ \E ok \in BOOLEAN :
        IF ok
        THEN /\ err' = Nil
             /\ pc' = "Inspect"
             /\ UNCHANGED result
        ELSE /\ err' = Err("ComputeImage", "")
             /\ Return(Err("failed to compute image URL", ""))
    /\ UNCHANGED <<inspectedValues, currentRelease, deferArmed, trace,
                   serviceRunning, systemdImage, finalizeArgs>>

\* Inspect: scriptDir, err := os.MkdirTemp("", "mgradm-*")
Upgrade_Inspect_MkdirTemp ==
    /\ pc = "Inspect"
    /\ fnState = "call"
    /\ \E ok \in BOOLEAN : MkdirTemp("Inspect", ok)
    /\ UNCHANGED <<pc, inspectedValues, currentRelease, err, result, deferArmed, trace,
                   serviceRunning, systemdImage, finalizeArgs, mounts, pulls, migrationVars, restVars>>

\* inspectedValues, err := Inspect(serverImage, image.PullPolicy)
Upgrade_Inspect ==
    /\ pc = "Inspect"
    /\ fnState # "call"
    /\ UNCHANGED <<migrationVars, restVars>>
    /\ \E o \in OutcomesAfter(InspectOutcomes), hostValues \in HostFacts, m \in InspectResults :
        LET r == Inspect(o, m) IN
        /\ inspectedValues' = r.values
        /\ err' = r.err
        /\ Log(r.events)
        /\ Pull("Inspect", InspectOrder, o, hostValues)
        /\ Leave(r)
        /\ IF r.err = Nil
           THEN pc' = "SanityCheck" /\ UNCHANGED result
           ELSE Return(Err("cannot inspect podman values: %s", r.err.msg))
    /\ UNCHANGED <<currentRelease, deferArmed, serviceRunning, systemdImage, finalizeArgs>>

\* adm_utils.SanityCheck(cnx, inspectedValues, serverImage): the facts must
\* hold both version keys; the other checks of the deployment pass (envOk) or not.
SanityCheck(values, envOk) ==
    IF "current_pg_version" \notin DOMAIN values
    THEN Err("SanityCheck: no current_pg_version", "")
    ELSE IF "image_pg_version" \notin DOMAIN values
    THEN Err("SanityCheck: no image_pg_version", "")
    ELSE IF envOk THEN Nil ELSE Err("SanityCheck", "")

\* The error of the sanity check ignored: the upgrade goes on.
AfterSanityCheckError_Ignored(armed, e) == "StopService"

\* if err := adm_utils.SanityCheck(...); err != nil { return err }
AfterSanityCheckError(armed, e) == AfterReturn(armed, e)

\* adm_utils.SanityCheck(cnx, inspectedValues, serverImage)
Upgrade_SanityCheck ==
    /\ pc = "SanityCheck"
    /\ UNCHANGED <<bundleVars, pulls, migrationVars, restVars>>
    /\ \E envOk \in BOOLEAN :
        LET e == SanityCheck(inspectedValues, envOk) IN
        IF e = Nil
        THEN pc' = "StopService" /\ UNCHANGED result
        ELSE /\ result' = e
             /\ pc' = AfterSanityCheckError(deferArmed, e)
    /\ UNCHANGED <<inspectedValues, currentRelease, err, deferArmed, trace,
                   serviceRunning, systemdImage, finalizeArgs>>

\* podman.StopService(podman.ServerService), then the defer statement
Upgrade_StopService ==
    /\ pc = "StopService"
    /\ UNCHANGED <<bundleVars, pulls, migrationVars, restVars>>
    /\ \E ok \in BOOLEAN :
        /\ Log(<<Event("StopService", ok)>>)
        /\ IF ok
           THEN /\ serviceRunning' = FALSE
                /\ deferArmed' = ArmsDefer(TRUE)
                /\ pc' = AfterStopService
                /\ UNCHANGED result
           ELSE /\ result' = Err("cannot stop service %s", "StopService")
                /\ deferArmed' = ArmsDefer(FALSE)
                /\ pc' = AfterReturn(ArmsDefer(FALSE), result')
                /\ UNCHANGED serviceRunning
    /\ UNCHANGED <<inspectedValues, currentRelease, err, systemdImage, finalizeArgs>>

PlanDecision ==
    DbDecision(Get(inspectedValues, "image_pg_version"), Get(inspectedValues, "current_pg_version"))

\* RunPgsqlVersionUpgrade: scriptDir, err := os.MkdirTemp("", "mgradm-*")
Upgrade_DbUpgrade_MkdirTemp ==
    /\ pc = "Plan"
    /\ PlanDecision = "upgrade"
    /\ fnState = "call"
    /\ \E ok \in BOOLEAN : MkdirTemp("RunPgsqlVersionUpgrade", ok)
    /\ UNCHANGED <<pc, inspectedValues, currentRelease, err, result, deferArmed, trace,
                   serviceRunning, systemdImage, finalizeArgs, mounts, pulls, migrationVars, restVars>>

\* image_pg_version > current_pg_version: RunPgsqlVersionUpgrade
Upgrade_DbUpgrade ==
    /\ pc = "Plan"
    /\ PlanDecision = "upgrade"
    /\ fnState # "call"
    /\ UNCHANGED <<migrationVars, restVars>>
    /\ \E o \in OutcomesAfter(PgsqlVersionUpgradeOutcomes), hostValues \in HostFacts :
        LET r == RunPgsqlVersionUpgrade(Get(inspectedValues, "current_pg_version"),
                                        Get(inspectedValues, "image_pg_version"), o) IN
        /\ Log(r.events)
        /\ IF StrGreater(Get(inspectedValues, "image_pg_version"), Get(inspectedValues, "current_pg_version"))
           THEN Pull("RunPgsqlVersionUpgrade", PgsqlVersionUpgradeOrder, o, hostValues)
           ELSE UNCHANGED pulls
        /\ Leave(r)
        /\ IF r.err = Nil
           THEN pc' = "RunPgsqlFinalizeScript" /\ UNCHANGED result
           ELSE LET e == Err("cannot run PostgreSQL version upgrade script: %s", r.err.msg) IN
                /\ result' = e
                /\ pc' = AfterDbUpgradeError(deferArmed, e)
    /\ UNCHANGED <<inspectedValues, currentRelease, err, deferArmed,
                   serviceRunning, systemdImage, finalizeArgs>>

\* image_pg_version == current_pg_version: only a log message
Upgrade_SameVersion ==
    /\ pc = "Plan"
    /\ UNCHANGED <<bundleVars, pulls, migrationVars, restVars>>
    /\ PlanDecision = "same"
    /\ pc' = "RunPgsqlFinalizeScript"
    /\ UNCHANGED <<inspectedValues, currentRelease, err, result, deferArmed, trace,
                   serviceRunning, systemdImage, finalizeArgs>>

\* else: trying to downgrade postgresql
Upgrade_Downgrade ==
    /\ pc = "Plan"
    /\ UNCHANGED <<bundleVars, pulls, migrationVars, restVars>>
    /\ PlanDecision = "downgrade"
    /\ Return(Err("trying to downgrade postgresql from %s to %s", ""))
    /\ UNCHANGED <<inspectedValues, currentRelease, err, deferArmed, trace,
                   serviceRunning, systemdImage, finalizeArgs>>

\* RunPgsqlFinalizeScript: scriptDir, err := os.MkdirTemp("", "mgradm-*")
Upgrade_Finalize_MkdirTemp ==
    /\ pc = "RunPgsqlFinalizeScript"
    /\ fnState = "call"
    /\ \E ok \in BOOLEAN : MkdirTemp("RunPgsqlFinalizeScript", ok)
    /\ UNCHANGED <<pc, inspectedValues, currentRelease, err, result, deferArmed, trace,
                   serviceRunning, systemdImage, finalizeArgs, mounts, pulls, migrationVars, restVars>>

\* RunPgsqlFinalizeScript(serverImage, schemaUpdateRequired)
Upgrade_Finalize ==
    /\ pc = "RunPgsqlFinalizeScript"
    /\ fnState # "call"
    /\ UNCHANGED <<pulls, migrationVars, restVars>>
    /\ finalizeArgs' = finalizeArgs \cup {SchemaUpdateRequired(inspectedValues)}
    /\ \E o \in OutcomesAfter(ScriptOutcomes) :
        LET r == RunPgsqlFinalizeScript(o) IN
        /\ Log(r.events)
        /\ Leave(r)
        /\ IF r.err = Nil
           THEN pc' = AfterFinalize /\ UNCHANGED result
           ELSE Return(Err("cannot run PostgreSQL version upgrade script: %s", r.err.msg))
    /\ UNCHANGED <<inspectedValues, currentRelease, err, deferArmed,
                   serviceRunning, systemdImage>>

\* RunPostUpgradeScript: scriptDir, err := os.MkdirTemp("", "mgradm-*")
Upgrade_PostUpgrade_MkdirTemp ==
    /\ pc = "RunPostUpgradeScript"
    /\ fnState = "call"
    /\ \E ok \in BOOLEAN : MkdirTemp("RunPostUpgradeScript", ok)
    /\ UNCHANGED <<pc, inspectedValues, currentRelease, err, result, deferArmed, trace,
                   serviceRunning, systemdImage, finalizeArgs, mounts, pulls, migrationVars, restVars>>

\* RunPostUpgradeScript(serverImage)
Upgrade_PostUpgrade ==
    /\ pc = "RunPostUpgradeScript"
    /\ fnState # "call"
    /\ UNCHANGED <<pulls, migrationVars, restVars>>
    /\ \E o \in OutcomesAfter(ScriptOutcomes) :
        LET r == RunPostUpgradeScript(o) IN
        /\ Log(r.events)
        /\ Leave(r)
        /\ IF r.err = Nil
           THEN pc' = "GenerateSystemdConfFile" /\ UNCHANGED result
           ELSE LET e == Err("cannot run post upgrade script: %s", r.err.msg) IN
                /\ result' = e
                /\ pc' = AfterPostUpgradeError(deferArmed, e)
    /\ UNCHANGED <<inspectedValues, currentRelease, err, deferArmed,
                   serviceRunning, systemdImage, finalizeArgs>>

\* podman.GenerateSystemdConfFile(..., "Environment=UYUNI_IMAGE="+serverImage)
Upgrade_GenerateSystemdConfFile ==
    /\ pc = "GenerateSystemdConfFile"
    /\ UNCHANGED <<bundleVars, pulls, migrationVars, restVars>>
    /\ \E ok \in BOOLEAN :
        /\ Log(<<Event("GenerateSystemdConfFile", ok)>>)
        /\ IF ok
           THEN /\ systemdImage' = "target"
                /\ pc' = "ReloadDaemon"
                /\ UNCHANGED result
           ELSE /\ Return(Err("GenerateSystemdConfFile", ""))
                /\ UNCHANGED systemdImage
    /\ UNCHANGED <<inspectedValues, currentRelease, err, deferArmed,
                   serviceRunning, finalizeArgs>>

\* return podman.ReloadDaemon(false)
Upgrade_ReloadDaemon ==
    /\ pc = "ReloadDaemon"
    /\ UNCHANGED <<bundleVars, pulls, migrationVars, restVars>>
    /\ \E ok \in BOOLEAN :
        /\ Log(<<Event("ReloadDaemon", ok)>>)
        /\ Return(IF ok THEN Nil ELSE Err("ReloadDaemon", ""))
    /\ UNCHANGED <<inspectedValues, currentRelease, err, deferArmed,
                   serviceRunning, systemdImage, finalizeArgs>>

\* defer func() { err = podman.StartService(podman.ServerService) }()
Upgrade_Deferred ==
    /\ pc = "deferred"
    /\ UNCHANGED <<bundleVars, pulls, migrationVars, restVars>>
    /\ \E ok \in BOOLEAN :
        LET startErr == IF ok THEN Nil ELSE Err("StartService", "") IN
        /\ Log(<<Event("StartService", ok)>>)
        /\ serviceRunning' = (ok \/ serviceRunning)
        /\ err' = startErr
        /\ result' = DeferredResult(result, startErr)
    /\ pc' = "done"
    /\ UNCHANGED <<inspectedValues, currentRelease, deferArmed, systemdImage, finalizeArgs>>

(***************************************************************************)
(* RunMigration.                                                           *)
(***************************************************************************)
\* An option of podman run: the flag and the parts of its value.
Arg(flag, value) == [flag |-> flag, value |-> value]

\* The paths the caller may give: "" or the path of a file.
SshPaths == {"", "file"}

\* extraArgs of RunMigration; the parts of a -v value are source and target.
ExtraArgs(sshConfigPath, sshKnownhostsPath) ==
    << Arg("--security-opt", <<"label:disable">>),
       Arg("-e", <<"SSH_AUTH_SOCK">>),
       Arg("-v", <<"dir(sshAuthSocket)", "dir(sshAuthSocket)">>),
       Arg("-v", <<"scriptDir", "/var/lib/uyuni-tools/">>) >>
    \o (IF sshConfigPath # "" THEN <<Arg("-v", <<sshConfigPath, "/tmp/ssh_config">>)>> ELSE <<>>)
    \o (IF sshKnownhostsPath # "" THEN <<Arg("-v", <<sshKnownhostsPath, "/etc/ssh/ssh_known_hosts">>)>> ELSE <<>>)

\* What adm_utils.ReadContainerData may read from the bundle.
MigrationResults ==
    [tz : {"UTC"}, oldPgVersion : PgVersions, newPgVersion : PgVersions]

MigrationOutcomes == {"host", "pull", "run", "read", "ok"}

\* RunMigration after the script is generated; data is what ReadContainerData reads.
RunMigration(o, data) ==
    CASE o = "host" -> [data |-> NoMigrationData, err |-> Err("cannot inspect host values: %s", "InspectHost"),
                        events |-> <<>>]
      [] o = "pull" -> [data |-> NoMigrationData, err |-> Err("PrepareImage", ""), events |-> <<>>]
      [] o = "run"  -> [data |-> NoMigrationData,
                        err |-> Err("cannot run uyuni migration container: %s", "RunContainer"),
                        events |-> <<Event("uyuni-migration", FALSE)>>]
      [] o = "read" -> [data |-> NoMigrationData,
                        err |-> Err("cannot read extracted data: %s", "ReadContainerData"),
                        events |-> <<Event("uyuni-migration", TRUE)>>]
      [] o = "ok"   -> [data |-> data, err |-> Nil, events |-> <<Event("uyuni-migration", TRUE)>>]

\* adm_utils.GenerateMigrationScript(sourceFqdn, user, false): the bundle
\* directory exists when it succeeds, and no directory when it fails.
GenerateMigrationScript(ok) ==
    IF ok
    THEN MkdirTemp("RunMigration", TRUE)
    ELSE UNCHANGED bundleVars

\* scriptDir, err := adm_utils.GenerateMigrationScript(...); defer os.RemoveAll(scriptDir)
RunMigration_GenerateMigrationScript ==
    /\ pc = "RunMigration"
    /\ fnState = "call"
    /\ \E ok \in BOOLEAN :
        /\ GenerateMigrationScript(ok)
        /\ IF ok
           THEN UNCHANGED <<pc, result, mounts>>
           ELSE /\ result' = Err("cannot generate migration script: %s", "GenerateMigrationScript")
                /\ pc' = "migrated"
    /\ UNCHANGED <<inspectedValues, currentRelease, err, deferArmed, trace,
                   serviceRunning, systemdImage, finalizeArgs, pulls, migrationVars, restVars>>

\* the rest of RunMigration
RunMigration_Run ==
    /\ pc = "RunMigration"
    /\ fnState # "call"
    /\ \E o \in MigrationOutcomes, hostValues \in HostFacts, data \in MigrationResults,
          sshConfigPath \in SshPaths, sshKnownhostsPath \in SshPaths :
        LET r == RunMigration(o, data) IN
        /\ Log(r.events)
        /\ Pull("RunMigration", MigrationOrder, o, hostValues)
        /\ migrationArgs' = IF r.events # <<>>
                            THEN ExtraArgs(sshConfigPath, sshKnownhostsPath)
                            ELSE migrationArgs
        /\ migrationData' = r.data
        /\ Leave(r)
        /\ result' = r.err
    /\ pc' = "migrated"
    /\ UNCHANGED <<inspectedValues, currentRelease, err, deferArmed,
                   serviceRunning, systemdImage, finalizeArgs, restVars>>

Next ==
    \/ Upgrade_ComputeImage
    \/ Upgrade_Inspect_MkdirTemp
    \/ Upgrade_Inspect
    \/ Upgrade_SanityCheck
    \/ Upgrade_StopService
    \/ Upgrade_DbUpgrade_MkdirTemp
    \/ Upgrade_DbUpgrade
    \/ Upgrade_SameVersion
    \/ Upgrade_Downgrade
    \/ Upgrade_Finalize_MkdirTemp
    \/ Upgrade_Finalize
    \/ Upgrade_PostUpgrade_MkdirTemp
    \/ Upgrade_PostUpgrade
    \/ Upgrade_GenerateSystemdConfFile
    \/ Upgrade_ReloadDaemon
    \/ Upgrade_Deferred
    \/ RunMigration_GenerateMigrationScript
    \/ RunMigration_Run

Spec == Init /\ [][Next]_vars


(***************************************************************************)
(* package kubernetes: Start, Stop and Restart of the deployment.          *)
(*                                                                         *)
(* kube.replicas is the replica count last asked of the deployment and     *)
(* kube.pod says whether GetNode finds a pod of it.  A pod of a deployment *)
(* scaled to 0 can still be found while it terminates.                     *)
(***************************************************************************)
KubeStates == [replicas : {0, 1}, pod : BOOLEAN]

\* GetNode(filter): an error when no pod is found
GetNode(k) == IF k.pod THEN Nil ELSE Err("cannot find node", "GetNode")

\* ReplicasTo(filter, replica): asks for the replica count; with 1 it returns
\* once the pod runs, with 0 the pod may outlive the call (`lingers').
ReplicasTo(k, replica, ok, lingers) ==
    IF ok
    THEN [k      |-> [replicas |-> replica,
                      pod      |-> IF replica = 0 THEN k.pod /\ lingers ELSE TRUE],
          err    |-> Nil,
          scaled |-> <<replica>>]
    ELSE [k |-> k, err |-> Err("cannot run kubectl scale", "ReplicasTo"), scaled |-> <<replica>>]

\* Start scaling whatever GetNode says.
StartScales_Always(getNodeErr) == TRUE

\* if _, err := GetNode(filter); err != nil
StartScales(getNodeErr) == getNodeErr # Nil

\* func Start(filter string) error
Start(k, ok) ==
    IF StartScales(GetNode(k))
    THEN ReplicasTo(k, 1, ok, FALSE)
    ELSE [k |-> k, err |-> Nil, scaled |-> <<>>]

\* func Stop(filter string) error
Stop(k, ok, lingers) == ReplicasTo(k, 0, ok, lingers)

\* func Restart(filter string) error
Restart(k, stopOk, lingers, startOk) ==
    LET stopped == Stop(k, stopOk, lingers) IN
    IF stopped.err # Nil
    THEN [stopped EXCEPT !.err = Err("cannot stop %s: %s", stopped.err.cause)]
    ELSE LET started == Start(stopped.k, startOk) IN
         [started EXCEPT !.scaled = stopped.scaled \o started.scaled]

\* one more entry of the log: what ran, what GetNode found before it, the
\* replica counts it asked for, what it returned and the cluster after it
Record(op, r) ==
    /\ Len(kubeLog) < MaxKubeCalls
    /\ kube' = r.k
    /\ kubeLog' = Append(kubeLog, [op |-> op, found |-> kube.pod, scaled |-> r.scaled,
                                   err |-> r.err, after |-> r.k])
    /\ UNCHANGED notKubeVars

Kube_Start == \E ok \in BOOLEAN : Record("Start", Start(kube, ok))

Kube_Stop == \E ok \in BOOLEAN, lingers \in BOOLEAN : Record("Stop", Stop(kube, ok, lingers))

Kube_Restart ==
    \E stopOk \in BOOLEAN, lingers \in BOOLEAN, startOk \in BOOLEAN :
        Record("Restart", Restart(kube, stopOk, lingers, startOk))

\* the terminating pod of a deployment scaled to 0 is gone
Kube_PodTerminated ==
    /\ kube.replicas = 0
    /\ kube.pod
    /\ Record("PodTerminated", [k |-> [kube EXCEPT !.pod = FALSE], err |-> Nil, scaled |-> <<>>])

\* The cluster in any state, no podman function running.
InitKube ==
    /\ PodmanInit({"none"}, {Dec(1)})
    /\ kube \in KubeStates
    /\ kubeLog = <<>>
    /\ ImageIdle
    /\ SelectIdle
    /\ AskIdle
    /\ ExtractIdle

NextKube ==
    \/ Kube_Start
    \/ Kube_Stop
    \/ Kube_Restart
    \/ Kube_PodTerminated

SpecKube == InitKube /\ [][NextKube]_vars


(***************************************************************************)
(* Image references.  A string is the sequence of its characters.          *)
(*                                                                         *)
(* An image reference is [host[:port]/]path[:tag]: the registry host, its  *)
(* port in digits, the repository path and the tag.                        *)
(***************************************************************************)
Digits == {"0", "1", "2", "3", "4", "5", "6", "7", "8", "9"}

\* strconv on one digit
DigitChar(d) == CASE d = 0 -> "0" [] d = 1 -> "1" [] d = 2 -> "2" [] d = 3 -> "3"
                  [] d = 4 -> "4" [] d = 5 -> "5" [] d = 6 -> "6" [] d = 7 -> "7"
                  [] d = 8 -> "8" [] d = 9 -> "9"

\* the characters of a version
Str(v) == [i \in DOMAIN v |-> DigitChar(v[i])]

\* the non-empty strings of at most n characters of the alphabet
Words(alphabet, n) == UNION {[1..k -> alphabet] : k \in 1..n}

LowerChar(c) == CASE c = "R" -> "r" [] c = "I" -> "i" [] c = "P" -> "p"
                  [] c = "T" -> "t" [] c = "B" -> "b" [] OTHER -> c

\* strings.ToLower
ToLower(s) == [i \in DOMAIN s |-> LowerChar(s[i])]

\* strings.Index for one character: 0 when it is not there
Index(s, c) == IF \E i \in DOMAIN s : s[i] = c
               THEN CHOOSE i \in DOMAIN s : s[i] = c /\ \A j \in 1..(i - 1) : s[j] # c
               ELSE 0

\* The first tag separator taken, whatever follows it.
ValidSeparators_Any(tagSeps) == TRUE

\* a reference has at most one tag separator
ValidSeparators(tagSeps) == Cardinality(tagSeps) <= 1

\* The reference taken apart: the length of the registry host, the
\* repository (host, port and path) and the tag, or not valid.  A ':'
\* followed by digits up to the first '/' starts the port; every other ':'
\* is a tag separator, and there is at most one.
ParseImage(name) ==
    LET slash     == Index(name, "/")
        colons    == {i \in DOMAIN name : name[i] = ":"}
        ports     == {c \in colons : /\ 1 < c
                                     /\ c + 1 < slash
                                     /\ \A i \in 1..(c - 1) : name[i] # ":"
                                     /\ \A i \in (c + 1)..(slash - 1) : name[i] \in Digits}
        tagSeps   == colons \ ports
        sep       == IF tagSeps = {} THEN Len(name) + 1
                     ELSE CHOOSE c \in tagSeps : \A d \in tagSeps : c <= d
        registry  == IF slash > 1 /\ slash < sep
                     THEN IF ports = {} THEN slash - 1 ELSE (CHOOSE c \in ports : TRUE) - 1
                     ELSE 0
    IN  IF ~ValidSeparators(tagSeps) \/ sep = 1 \/ sep = Len(name)
        THEN [valid |-> FALSE, host |-> 0, repository |-> <<>>, tag |-> <<>>]
        ELSE [valid      |-> TRUE,
              host       |-> registry,
              repository |-> SubSeq(name, 1, sep - 1),
              tag        |-> SubSeq(name, sep + 1, Len(name))]

\* Lower-casing the whole repository.
Normalise_ToLowerAll(repository, host) == ToLower(repository)

\* the repository with its registry host, the first `host' characters, in lower case
Normalise(repository, host) ==
    ToLower(SubSeq(repository, 1, host)) \o SubSeq(repository, host + 1, Len(repository))

\* Appending the suffix after the tag.
ComputeImage_SuffixLast(name, tag, appendToName) ==
    LET p == ParseImage(name) IN
    IF ~p.valid
    THEN [image |-> <<>>, err |-> Err("invalid image name: %s", "ComputeImage")]
    ELSE [image |-> Normalise(p.repository, p.host)
                    \o <<":">> \o (IF p.tag # <<>> THEN p.tag ELSE tag) \o appendToName,
          err   |-> Nil]

\* func ComputeImage(name string, tag string, appendToName ...string) (string, error)
ComputeImage(name, tag, appendToName) ==
    LET p == ParseImage(name) IN
    IF ~p.valid
    THEN [image |-> <<>>, err |-> Err("invalid image name: %s", "ComputeImage")]
    ELSE [image |-> Normalise(p.repository, p.host)
                    \o appendToName
                    \o <<":">> \o (IF p.tag # <<>> THEN p.tag ELSE tag),
          err   |-> Nil]

\* fmt.Sprintf("-migration-%s-%s", oldPgsql, newPgsql)
MigrationSuffix(oldPgsql, newPgsql) ==
    <<"-", "m", "i", "g", "r", "a", "t", "i", "o", "n", "-">>
        \o Str(oldPgsql) \o <<"-">> \o Str(newPgsql)

\* The suffix on the given migration image too.
MigrationImageUrl_AlwaysSuffix(migrationImageName, imageName, imageTag, oldPgsql, newPgsql) ==
    IF migrationImageName = EmptyStr
    THEN ComputeImage(imageName, imageTag, MigrationSuffix(oldPgsql, newPgsql))
    ELSE ComputeImage(migrationImageName, imageTag, MigrationSuffix(oldPgsql, newPgsql))

\* migrationImageUrl, err of RunPgsqlVersionUpgrade
MigrationImageUrl(migrationImageName, imageName, imageTag, oldPgsql, newPgsql) ==
    IF migrationImageName = EmptyStr
    THEN ComputeImage(imageName, imageTag, MigrationSuffix(oldPgsql, newPgsql))
    ELSE ComputeImage(migrationImageName, imageTag, EmptyStr)

\* the parts of a reference put together; extra is a second tag
Compose(parts) ==
    (IF parts.host = <<>>
     THEN <<>>
     ELSE parts.host \o (IF parts.port = <<>> THEN <<>> ELSE <<":">> \o parts.port) \o <<"/">>)
    \o parts.path
    \o (IF parts.tag = <<>> THEN <<>> ELSE <<":">> \o parts.tag)
    \o (IF parts.extra = <<>> THEN <<>> ELSE <<":">> \o parts.extra)

HostNames == Words({"r", "R"}, MaxHostLen)

\* "path" where the port goes makes its ':' a tag separator
Ports == {<<>>, <<"5">>, <<"5", "0">>, <<"p">>}

Paths == {<<"i">>, <<"I">>, <<"p", "/", "I">>}

RefTags == {<<>>, <<"t">>, <<"T">>}

TagFlags == {<<"b">>, <<"B">>}

ImageParts ==
    [host : HostNames, port : Ports, path : Paths, tag : RefTags, extra : {<<>>, <<"t">>}]
    \cup [host : {<<>>}, port : {<<>>}, path : Paths, tag : RefTags, extra : {<<>>, <<"t">>}]

\* the --pgsql-migration-image one can give: none, or one of these
MigrationImageParts ==
    {parts \in ImageParts : /\ parts.host \in {<<>>, <<"R">>}
                            /\ parts.port \in {<<>>, <<"5">>}
                            /\ parts.path # <<"i">>}

\* the one call of ComputeImage that is looked at: who called, the parts the
\* name was made of, the arguments and the result
Call(fn, parts, migrationImage, versions, name, tag, appendToName, r) ==
    /\ computed = <<>>
    /\ inspection = <<>>
    /\ computed' = [fn |-> fn, parts |-> parts, migrationImage |-> migrationImage,
                    versions |-> versions,
                    name |-> name, tag |-> tag, appendToName |-> appendToName,
                    image |-> r.image, err |-> r.err]
    /\ UNCHANGED <<image, inspection, notImageVars>>

\* serverImage, err := utils.ComputeImage(image.Name, image.Tag)
Image_Upgrade ==
    Call("Upgrade", image.parts, EmptyStr, <<>>, image.name, image.tag, EmptyStr,
         ComputeImage(image.name, image.tag, EmptyStr))

\* the migration image of RunPgsqlVersionUpgrade, none given
Image_Migration ==
    /\ computed = <<>>
    /\ \E oldPgsql \in PgVersions, newPgsql \in PgVersions :
        /\ StrGreater(newPgsql, oldPgsql)
        /\ Call("RunPgsqlVersionUpgrade", image.parts, EmptyStr, <<oldPgsql, newPgsql>>,
                image.name, image.tag,
                MigrationSuffix(oldPgsql, newPgsql),
                MigrationImageUrl(EmptyStr, image.name, image.tag, oldPgsql, newPgsql))

\* the migration image of RunPgsqlVersionUpgrade, one given
Image_MigrationOverride ==
    /\ computed = <<>>
    /\ \E oldPgsql \in PgVersions, newPgsql \in PgVersions, parts \in MigrationImageParts :
        /\ StrGreater(newPgsql, oldPgsql)
        /\ Call("RunPgsqlVersionUpgrade", parts, Compose(parts), <<oldPgsql, newPgsql>>,
                Compose(parts), image.tag, EmptyStr,
                MigrationImageUrl(Compose(parts), image.name, image.tag, oldPgsql, newPgsql))

\* The image of the running server, as adm_utils.RunningImage finds it.
DeployedImage == <<"d", ":", "t">>

\* if err != nil && len(serverImage) > 0
InspectFailsOn(serverImage, computeErr) == computeErr # Nil /\ Len(serverImage) > 0

\* if len(serverImage) <= 0
UsesDeployedImage(serverImage) == Len(serverImage) <= 0

\* podmanInspect and kuberneteInspect: flags.Image and flags.Tag are the image
\* flags; runningOk and inspectOk say whether adm_utils.RunningImage and the
\* inspection (Inspect, InspectKubernetes) succeed.
InspectCommand(name, tag, runningOk, inspectOk) ==
    LET c == ComputeImage(name, tag, EmptyStr) IN
    IF InspectFailsOn(c.image, c.err)
    THEN [serverImage |-> c.image, deployed |-> FALSE, helper |-> FALSE,
          err |-> Err("failed to determine image: %s", "ComputeImage")]
    ELSE IF UsesDeployedImage(c.image) /\ ~runningOk
    THEN [serverImage |-> EmptyStr, deployed |-> FALSE, helper |-> FALSE,
          err |-> Err("failed to find the image of the currently running server container: %s",
                      "RunningImage")]
    ELSE [serverImage |-> IF UsesDeployedImage(c.image) THEN DeployedImage ELSE c.image,
          deployed    |-> UsesDeployedImage(c.image),
          helper      |-> TRUE,
          err         |-> IF inspectOk THEN Nil ELSE Err("inspect command failed: %s", "Inspect")]

\* one run of the inspect command
RunInspect(cmd) ==
    /\ computed = <<>>
    /\ inspection = <<>>
    /\ \E runningOk \in BOOLEAN, inspectOk \in BOOLEAN :
           inspection' = [cmd |-> cmd, runningOk |-> runningOk]
                             @@ InspectCommand(image.name, image.tag, runningOk, inspectOk)
    /\ UNCHANGED <<image, computed, notImageVars>>

Image_PodmanInspect == RunInspect("podmanInspect")

Image_KuberneteInspect == RunInspect("kuberneteInspect")

\* no --image given
NoImage == [host |-> <<>>, port |-> <<>>, path |-> <<>>, tag |-> <<>>, extra |-> <<>>]

FlagImageParts == ImageParts \cup {NoImage}

\* The image flags hold any reference and tag.
InitImage ==
    /\ PodmanInit({"none"}, {Dec(1)})
    /\ KubeIdle
    /\ SelectIdle
    /\ AskIdle
    /\ ExtractIdle
    /\ \E parts \in FlagImageParts, tag \in TagFlags :
           image = [parts |-> parts, name |-> Compose(parts), tag |-> tag]
    /\ computed = <<>>
    /\ inspection = <<>>

NextImage ==
    \/ Image_Upgrade
    \/ Image_Migration
    \/ Image_MigrationOverride
    \/ Image_PodmanInspect
    \/ Image_KuberneteInspect

SpecImage == InitImage /\ [][NextImage]_vars


(***************************************************************************)
(* Backend selection: shared.ChoosePodmanOrKubernetes and the commands     *)
(* that run the closure it returns.                                        *)
(*                                                                         *)
(* deployment.backend is the --backend flag ("" when not given), and       *)
(* deployment.podman and deployment.kubectl say whether the backend has a  *)
(* running instance.  The flag exists only in a build with kubernetes.     *)
(***************************************************************************)
Backends == {"podman", "kubectl"}

Deployments ==
    {d \in [built : BOOLEAN, backend : Backends \cup {""}, podman : BOOLEAN, kubectl : BOOLEAN] :
        ~d.built => d.backend = ""}

\* An explicit backend without an instance falls back to the detection.
Choose_Fallback(d) ==
    IF d.backend # "" /\ d[d.backend]
    THEN [fn |-> d.backend, probes |-> <<>>, err |-> Nil]
    ELSE IF d.podman
    THEN [fn |-> "podman", probes |-> <<"podman">>, err |-> Nil]
    ELSE IF d.kubectl
    THEN [fn |-> "kubectl", probes |-> <<"podman", "kubectl">>, err |-> Nil]
    ELSE [fn |-> "", probes |-> <<"podman", "kubectl">>,
          err |-> Err("no deployment found, specify backend explicitly.", "")]

\* shared.ChoosePodmanOrKubernetes(flags, podmanFn, kubernetesFn): the closure
\* of the named backend, or of the first backend found running.
Choose(d) ==
    IF d.backend # ""
    THEN [fn |-> d.backend, probes |-> <<>>, err |-> Nil]
    ELSE IF d.podman
    THEN [fn |-> "podman", probes |-> <<"podman">>, err |-> Nil]
    ELSE IF d.kubectl
    THEN [fn |-> "kubectl", probes |-> <<"podman", "kubectl">>, err |-> Nil]
    ELSE [fn |-> "", probes |-> <<"podman", "kubectl">>,
          err |-> Err("no deployment found, specify backend explicitly.", "")]

\* The podman closure run when no closure was chosen.
Invoked_OnError(choice) == IF choice.err # Nil THEN <<"podman">> ELSE <<choice.fn>>

\* if err != nil { return err }; return fn(globalFlags, flags, cmd, args)
Invoked(choice) == IF choice.err # Nil THEN <<>> ELSE <<choice.fn>>

\* What a closure does: in a build without kubernetes the kubernetes closure
\* only returns its error; any other closure acts on its backend and may fail.
Closure(cmd, backend, built, ok) ==
    IF backend = "kubectl" /\ ~built
    THEN [effects |-> <<>>, err |-> Err("built without kubernetes support", "")]
    ELSE [effects |-> <<[cmd |-> cmd, backend |-> backend]>>,
          err     |-> IF ok THEN Nil ELSE Err("closure failed", backend)]

\* a command: the selection, then the closure
Command(cmd, d, ok) ==
    LET choice == Choose(d)
        fns    == Invoked(choice)
        run    == IF fns = <<>> THEN [effects |-> <<>>, err |-> choice.err]
                  ELSE Closure(cmd, fns[1], d.built, ok)
    IN  [cmd |-> cmd, probes |-> choice.probes, chosen |-> choice.fn, invoked |-> fns,
         effects |-> run.effects, err |-> run.err]

RunCommand(cmd) ==
    /\ Len(cmdLog) < MaxCommands
    /\ \E ok \in BOOLEAN : cmdLog' = Append(cmdLog, Command(cmd, deployment, ok))
    /\ UNCHANGED <<deployment, notSelectVars>>

\* func start(...)
Cmd_Start == deployment.built /\ RunCommand("start")

\* func uninstall(...)
Cmd_Uninstall == deployment.built /\ RunCommand("uninstall")

\* the stop command; kubernetesStop is its kubernetes closure
Cmd_Stop == RunCommand("stop")

InitSelect ==
    /\ PodmanInit({"none"}, {Dec(1)})
    /\ KubeIdle
    /\ ImageIdle
    /\ AskIdle
    /\ ExtractIdle
    /\ deployment \in Deployments
    /\ cmdLog = <<>>

NextSelect ==
    \/ Cmd_Start
    \/ Cmd_Uninstall
    \/ Cmd_Stop

SpecSelect == InitSelect /\ [][NextSelect]_vars


(***************************************************************************)
(* utils.AskIfMissing and utils.AskPasswordIfMissing: the prompt is shown  *)
(* and a line is read until a line passes the checks.                      *)
(***************************************************************************)
\* the lines typed in the tests, without their "\n"
Typed ==
    { <<>>,
      <<"a">>,
      <<"f", "o", "o">>,
      <<"b", "o", "o", "h">>,
      <<"s", "u", "p", "e", "r", "l", "o", "n", "g">> }

\* fChecker: strings.Contains(v, "f")
FChecker(v) == \E i \in DOMAIN v : v[i] = "f"

\* the arguments of the tests, and their combinations; a password has no checker
AskCalls ==
    {c \in [fn : {"AskIfMissing", "AskPasswordIfMissing"}, min : {0, 1, 2}, max : {0, 5},
            checker : {"nil", "fChecker"}] :
        c.fn = "AskPasswordIfMissing" => c.checker = "nil"}

\* The message a line gets, "" when there is none.
Check(c, line) ==
    IF line = <<>> /\ c.min >= 1 THEN "A value is required"
    ELSE IF c.max > 0 /\ Len(line) > c.max THEN "Has to be less than %d characters long"
    ELSE IF Len(line) < c.min THEN "Has to be more than %d characters long"
    ELSE IF c.checker = "fChecker" /\ ~FChecker(line) THEN "Has to contain an 'f'"
    ELSE ""

\* Returning after the first line, whatever it is.
Returns_Always(message) == TRUE

\* the loop ends with a line that got no message
Returns(message) == message = ""

\* one turn of the loop: the prompt, the line read, the checks
Ask_Line ==
    /\ ask # <<>>
    /\ ~askDone
    /\ Len(askLog) < MaxInputs
    /\ \E line \in Typed :
        LET message == Check(ask, line) IN
        /\ askLog' = Append(askLog, [prompt  |-> IF ask.fn = "AskIfMissing" THEN "Prompted value: "
                                                   ELSE "Prompted password: ",
                                     line    |-> line,
                                     message |-> message])
        /\ askDone' = Returns(message)
        /\ askValue' = IF Returns(message) THEN line ELSE askValue
    /\ UNCHANGED <<ask, notAskVars>>

\* the call: AskIfMissing(&value, prompt, min, max, checker)
Ask_Call ==
    /\ ask = <<>>
    /\ \E c \in AskCalls : ask' = c
    /\ UNCHANGED <<askValue, askLog, askDone, notAskVars>>

InitAsk ==
    /\ PodmanInit({"none"}, {Dec(1)})
    /\ KubeIdle
    /\ ImageIdle
    /\ SelectIdle
    /\ AskIdle
    /\ ExtractIdle

NextAsk ==
    \/ Ask_Call
    \/ Ask_Line

SpecAsk == InitAsk /\ [][NextAsk]_vars


(***************************************************************************)
(* The support config extraction: func extract.                            *)
(*                                                                         *)
(* extraction.container and extraction.local are the extensions of the     *)
(* tarball files there are in the container and in the temporary           *)
(* directory; extraction.ext is the place in the loop over the extensions. *)
(***************************************************************************)
\* extensions := []string{"", ".md5"}
Extensions == <<"", ".md5">>

ExtractEvent(op, ext, ok) == [op |-> op, ext |-> ext, ok |-> ok]

\* The file removed from the container whatever the copy gave.
AfterCopy_RemoveAnyway(ok) == "rm"

\* if err := cnx.Copy(...); err != nil { return ... }, else on to the removal
AfterCopy(ok) == IF ok THEN "rm" ELSE "return"

\* defer os.RemoveAll(tmpDir)
DeferredRemoveTmpDir(tmpDir, e) == "removed"

\* return e, and the deferred removal of the temporary directory with its files
ExtractReturn(x, e) ==
    [x EXCEPT !.pc = "done", !.err = e,
              !.tmpDir = DeferredRemoveTmpDir(x.tmpDir, e),
              !.local = IF DeferredRemoveTmpDir(x.tmpDir, e) = "removed" THEN {} ELSE x.local]

ExtractStep(x, event) ==
    /\ extraction' = x
    /\ extractLog' = Append(extractLog, event)
    /\ UNCHANGED notExtractVars

\* tmpDir, err := os.MkdirTemp("", "mgradm-*")
Extract_MkdirTemp ==
    /\ extraction # <<>>
    /\ extraction.pc = "MkdirTemp"
    /\ \E ok \in BOOLEAN :
        ExtractStep(IF ok
                    THEN [extraction EXCEPT !.pc = "supportconfig", !.tmpDir = "exists"]
                    ELSE [extraction EXCEPT !.pc = "done",
                              !.err = Err("failed to create temporary directory: %s", "MkdirTemp")],
                    ExtractEvent("MkdirTemp", "", ok))

\* out, err := cnx.Exec("supportconfig"); tarballPath := getSupportConfigPath(out)
Extract_Supportconfig ==
    /\ extraction # <<>>
    /\ extraction.pc = "supportconfig"
    /\ \E ok \in BOOLEAN, found \in BOOLEAN, written \in SUBSET {"", ".md5"} :
        /\ ~ok => written = {}
        /\ ExtractStep(IF ~ok
                       THEN ExtractReturn(extraction, Err("failed to run supportconfig", ""))
                       ELSE IF ~found
                       THEN ExtractReturn([extraction EXCEPT !.container = written],
                                Err("failed to find container supportconfig tarball from command output", ""))
                       ELSE [extraction EXCEPT !.pc = "copy", !.ext = 1, !.container = written],
                       ExtractEvent("supportconfig", "", ok))

\* cnx.Copy("server:"+tarballPath+ext, containerTarball, "", "")
Extract_Copy ==
    /\ extraction # <<>>
    /\ extraction.pc = "copy"
    /\ LET ext == Extensions[extraction.ext] IN
       \E ok \in BOOLEAN :
        /\ ok => ext \in extraction.container
        /\ ExtractStep(IF AfterCopy(ok) = "return"
                       THEN ExtractReturn(extraction, Err("cannot copy tarball: %s", "Copy"))
                       ELSE [extraction EXCEPT !.pc = "rm",
                                 !.local = IF ok THEN @ \cup {ext} ELSE @,
                                 !.files = Append(@, <<"tmpDir", ext>>)],
                       ExtractEvent("Copy", ext, ok))

\* cnx.Exec("rm", tarballPath+ext)
Extract_Remove ==
    /\ extraction # <<>>
    /\ extraction.pc = "rm"
    /\ LET ext == Extensions[extraction.ext] IN
       \E ok \in BOOLEAN :
        /\ ok => ext \in extraction.container
        /\ ExtractStep(IF ~ok
                       THEN ExtractReturn(extraction,
                                Err("failed to remove %s%s file in the container: %s", "Exec"))
                       ELSE IF extraction.ext < Len(Extensions)
                       THEN [extraction EXCEPT !.pc = "copy", !.ext = @ + 1,
                                 !.container = @ \ {ext}]
                       ELSE [extraction EXCEPT !.pc = "host", !.container = @ \ {ext}],
                       ExtractEvent("rm", ext, ok))

\* exec.LookPath("supportconfig"), and supportconfig on the host
Extract_Host ==
    /\ extraction # <<>>
    /\ extraction.pc = "host"
    /\ \E installed \in BOOLEAN, ok \in BOOLEAN, found \in BOOLEAN :
        /\ ~installed => (ok /\ found)
        /\ ExtractStep(IF ~installed
                       THEN [extraction EXCEPT !.pc = "pack"]
                       ELSE IF ~ok
                       THEN ExtractReturn([extraction EXCEPT !.host = "failed"],
                                Err("failed to run supportconfig on the host: %s", "RunCmdOutput"))
                       ELSE IF ~found
                       THEN ExtractReturn([extraction EXCEPT !.host = "ran"],
                                Err("failed to find host supportconfig tarball from command output", ""))
                       ELSE [extraction EXCEPT !.pc = "pack", !.host = "ran",
                                 !.files = @ \o <<<<"host", "">>, <<"host", ".md5">>>>],
                       ExtractEvent(IF installed THEN "host supportconfig" ELSE "LookPath", "", ok))

\* utils.NewTarGz(flags.Output), tarball.AddFile for every file, tarball.Close()
Extract_Pack ==
    /\ extraction # <<>>
    /\ extraction.pc = "pack"
    /\ \E created \in BOOLEAN, added \in 0..Len(extraction.files) :
        /\ ~created => added = 0
        /\ ExtractStep(IF ~created
                       THEN ExtractReturn(extraction, Err("NewTarGz", ""))
                       ELSE IF added < Len(extraction.files)
                       THEN ExtractReturn([extraction EXCEPT !.archive = TRUE, !.packed = added],
                                Err("failed to add %s to tarball: %s", "AddFile"))
                       ELSE ExtractReturn([extraction EXCEPT !.archive = TRUE, !.packed = added], Nil),
                       ExtractEvent("NewTarGz", "", created))

\* the call of extract: cnx := shared.NewConnection(flags.Backend, ...)
Extract_Call ==
    /\ extraction = <<>>
    /\ \E backend \in Backends \cup {""} :
       extraction' = [backend |-> backend, pc |-> "MkdirTemp", ext |-> 0, tmpDir |-> "none", container |-> {},
                      local |-> {}, files |-> <<>>, host |-> "no", archive |-> FALSE,
                      packed |-> 0, err |-> Pending]
    /\ UNCHANGED <<extractLog, notExtractVars>>

InitExtract ==
    /\ PodmanInit({"none"}, {Dec(1)})
    /\ KubeIdle
    /\ ImageIdle
    /\ SelectIdle
    /\ AskIdle
    /\ ExtractIdle

NextExtract ==
    \/ Extract_Call
    \/ Extract_MkdirTemp
    \/ Extract_Supportconfig
    \/ Extract_Copy
    \/ Extract_Remove
    \/ Extract_Host
    \/ Extract_Pack

SpecExtract == InitExtract /\ [][NextExtract]_vars


(***************************************************************************)
(* Observations on a run.                                                  *)
(***************************************************************************)
\* positions of the calls of op in the trace
Pos(op) == {i \in DOMAIN trace : trace[i].op = op}

Has(op) == Pos(op) # {}

Succeeded(op) == \E i \in Pos(op) : trace[i].ok

Failed(op) == \E i \in Pos(op) : ~trace[i].ok

Count(op) == Cardinality(Pos(op))

\* every call of a comes before every call of b
Before(a, b) == \A i \in Pos(a), j \in Pos(b) : i < j

\* the helper containers that change the deployment
MutatingHelpers == {"uyuni-upgrade-pgsql", "uyuni-finalize-pgsql", "uyuni-post-upgrade"}

Returned == pc = "done"

CurrentPg == Get(inspectedValues, "current_pg_version")

ImagePg == Get(inspectedValues, "image_pg_version")

BothVersionsKnown == {"current_pg_version", "image_pg_version"} \subseteq DOMAIN inspectedValues

DowngradeRejected == result.msg = "trying to downgrade postgresql from %s to %s"

(***************************************************************************)
(* C1: once StopService has succeeded, StartService is called before       *)
(* Upgrade returns, whichever way Upgrade ends.                            *)
(***************************************************************************)
C1_DeferredRestart ==
    (Returned /\ Succeeded("StopService")) =>
        \E i \in Pos("StopService"), j \in Pos("StartService") : i < j

\* Upgrade has returned after the write of the systemd configuration failed,
\* and the service was started again.
C1_Witness ==
    /\ Returned
    /\ Succeeded("StopService")
    /\ Failed("GenerateSystemdConfFile")
    /\ Has("StartService")

(***************************************************************************)
(* C2: when the deferred StartService fails, Upgrade returns a non-nil     *)
(* error to its caller, also when every step before it succeeded.          *)
(***************************************************************************)
C2_RestartFailureSurfaced ==
    (Returned /\ Failed("StartService")) => result # Nil

(***************************************************************************)
(* C3: when a helper container fails and the deferred restart succeeds,    *)
(* Upgrade returns the error of the failed step, never nil.                *)
(***************************************************************************)
C3_StepErrorKept ==
    (Returned /\ Succeeded("StartService")) =>
        /\ Failed("uyuni-upgrade-pgsql") =>
              result = Err("cannot run PostgreSQL version upgrade script: %s", "RunContainer")
        /\ Failed("uyuni-finalize-pgsql") =>
              result = Err("cannot run PostgreSQL version upgrade script: %s", "RunContainer")
        /\ Failed("uyuni-post-upgrade") =>
              result = Err("cannot run post upgrade script: %s", "RunContainer")

\* The DB-migration container failed, the service was restarted, Upgrade returned.
C3_Witness ==
    /\ Returned
    /\ Failed("uyuni-upgrade-pgsql")
    /\ Succeeded("StartService")

(***************************************************************************)
(* C4: when the image DB version is lower than the current one, Upgrade    *)
(* fails with the downgrade error, launches no helper container that       *)
(* touches the deployment, and leaves the image reference alone.           *)
(***************************************************************************)
C4_DowngradeRejected ==
    (Returned /\ Succeeded("StopService") /\ BothVersionsKnown
        /\ NumVal(ImagePg) < NumVal(CurrentPg)) =>
        /\ DowngradeRejected
        /\ \A h \in MutatingHelpers : ~Has(h)
        /\ systemdImage = "deployed"

(***************************************************************************)
(* C5: a rejected downgrade has stopped nothing: the run holds no          *)
(* StopService and no StartService call.                                   *)
(***************************************************************************)
C5_RejectBeforeStop ==
    (Returned /\ DowngradeRejected /\ BothVersionsKnown /\ NumVal(ImagePg) < NumVal(CurrentPg)) => (~Has("StopService") /\ ~Has("StartService"))

(***************************************************************************)
(* C6: the versions are compared as numbers: the DB upgrade is chosen iff  *)
(* image > current, the downgrade is rejected iff image < current, and     *)
(* neither when they are equal.                                            *)
(***************************************************************************)
C6_NumericComparison ==
    (pc = "Plan" /\ BothVersionsKnown) =>
        /\ PlanDecision = "upgrade" <=> NumVal(ImagePg) > NumVal(CurrentPg)
        /\ PlanDecision = "downgrade" <=> NumVal(ImagePg) < NumVal(CurrentPg)
        /\ PlanDecision = "same" <=> NumVal(ImagePg) = NumVal(CurrentPg)

(***************************************************************************)
(* C7: with equal DB versions, the finalize step gets                      *)
(* schemaUpdateRequired = TRUE exactly when the release of the deployed    *)
(* server and the release of the image differ.                             *)
(***************************************************************************)
C7_SchemaUpdateOnReleaseChange ==
    (finalizeArgs # {} /\ BothVersionsKnown /\ ImagePg = CurrentPg
        /\ "uyuni_release" \in DOMAIN inspectedValues) =>
        finalizeArgs = {currentRelease # inspectedValues["uyuni_release"]}

(***************************************************************************)
(* C8: a run that is not rejected and whose DB migration did not fail      *)
(* runs the finalize step; the DB-migration container is run only when     *)
(* the image DB version is greater than the current one.                   *)
(***************************************************************************)
C8_FinalizeAlwaysMigrationOnlyUp ==
    /\ (Returned /\ Succeeded("StopService") /\ ~DowngradeRejected
          /\ result.msg # "cannot run PostgreSQL version upgrade script: %s")
       => finalizeArgs # {}
    /\ (Returned /\ Succeeded("StopService") /\ ~DowngradeRejected
          /\ Succeeded("uyuni-upgrade-pgsql"))
       => finalizeArgs # {}
    /\ (Has("uyuni-upgrade-pgsql") /\ BothVersionsKnown)
       => NumVal(ImagePg) > NumVal(CurrentPg)

(***************************************************************************)
(* C9: the steps are totally ordered: a successful StopService, then the   *)
(* DB-migration container, then the finalize container, then the           *)
(* post-upgrade container, then the write of the image reference, then     *)
(* StartService; a step starts only when the ones before it succeeded.     *)
(***************************************************************************)
StepOrder ==
    <<"StopService", "uyuni-upgrade-pgsql", "uyuni-finalize-pgsql", "uyuni-post-upgrade",
      "GenerateSystemdConfFile", "ReloadDaemon", "StartService">>

C9_StepOrder ==
    /\ \A a, b \in DOMAIN StepOrder : a < b => Before(StepOrder[a], StepOrder[b])
    /\ \A j \in DOMAIN trace :
          trace[j].op \in MutatingHelpers \cup {"GenerateSystemdConfFile", "StartService"} =>
              \E i \in 1..(j - 1) : trace[i] = Event("StopService", TRUE)
    /\ \A i, j \in DOMAIN trace :
          (i < j /\ trace[j].op # "StartService" /\ trace[i].op \in MutatingHelpers) => trace[i].ok
    /\ Has("uyuni-post-upgrade") => Succeeded("uyuni-finalize-pgsql")
    /\ Has("GenerateSystemdConfFile") => Succeeded("uyuni-post-upgrade")
    /\ systemdImage = "target" => Succeeded("uyuni-post-upgrade")

\* A complete run: stop, the three helper containers, the image reference, start.
C9_Witness ==
    /\ Returned
    /\ \A k \in DOMAIN StepOrder : Has(StepOrder[k])
    /\ systemdImage = "target"

(***************************************************************************)
(* C10: in one run the service is stopped at most once and started at most *)
(* once, each helper container is launched at most once, and a run that    *)
(* succeeds stops the service exactly once and starts it exactly once.     *)
(***************************************************************************)
C10_AtMostOnce ==
    /\ \A op \in MutatingHelpers \cup {"StopService", "StartService", "uyuni-inspect"} : Count(op) <= 1
    /\ (Returned /\ result = Nil) => (Count("StopService") = 1 /\ Count("StartService") = 1)

\* A run in which every step succeeded has returned.
C10_Witness ==
    /\ Returned
    /\ result = Nil
    /\ Count("StopService") = 1
    /\ Count("StartService") = 1
    /\ \A h \in MutatingHelpers : Count(h) = 1


(***************************************************************************)
(* C11: a facts mapping without the current or the image DB version key    *)
(* is a hard error: Upgrade fails before it stops the service and before   *)
(* it launches a migration, finalize or post-upgrade container; the        *)
(* versions are never compared with a default value.                       *)
(***************************************************************************)
C11_MissingKeyIsError ==
    ~BothVersionsKnown =>
        /\ ~Has("StopService")
        /\ \A h \in MutatingHelpers : ~Has(h)
        /\ pc \notin {"Plan", "StopService"}
        /\ Returned => result # Nil

\* The inspection succeeded with a version key missing, and Upgrade has
\* returned the error of the sanity check.
C11_Witness ==
    /\ Returned
    /\ Succeeded("uyuni-inspect")
    /\ err = Nil
    /\ ~BothVersionsKnown
    /\ result.msg \in {"SanityCheck: no current_pg_version", "SanityCheck: no image_pg_version"}


ContainerFn ==
    [c \in {"uyuni-inspect", "uyuni-upgrade-pgsql", "uyuni-finalize-pgsql",
            "uyuni-post-upgrade", "uyuni-migration"} |->
        CASE c = "uyuni-inspect" -> "Inspect"
          [] c = "uyuni-upgrade-pgsql" -> "RunPgsqlVersionUpgrade"
          [] c = "uyuni-finalize-pgsql" -> "RunPgsqlFinalizeScript"
          [] c = "uyuni-post-upgrade" -> "RunPostUpgradeScript"
          [] c = "uyuni-migration" -> "RunMigration"]

C13_OwnBundle ==
    /\ \A i \in DOMAIN mounts :
          /\ mounts[i].dir # NoDir
          /\ mounts[i].dir \in DOMAIN creator
          /\ creator[mounts[i].dir] = ContainerFn[mounts[i].container]
    /\ \A i, j \in DOMAIN mounts : i # j => mounts[i].dir # mounts[j].dir
    /\ Cardinality(dirs) <= 1
    /\ scriptDir # NoDir => dirs = {scriptDir}

\* The four helper containers of an upgrade have run, each with its bundle.
C13_Witness ==
    /\ Returned
    /\ Len(mounts) = 4
    /\ Cardinality({mounts[i].dir : i \in DOMAIN mounts}) = 4

(***************************************************************************)
(* C14: Inspect returns either a nil error with the parsed mapping, or an  *)
(* error with an empty mapping, whichever of its steps fails.              *)
(***************************************************************************)
InspectFailed == result.msg = "cannot inspect podman values: %s"

C14_InspectAllOrNothing ==
    /\ pc = "SanityCheck" => (err = Nil /\ inspectedValues \in InspectResults)
    /\ InspectFailed => (err # Nil /\ inspectedValues = EmptyMap)

\* The inspect container ran, its output could not be read, and Upgrade got
\* an empty mapping with the error.
C14_Witness ==
    /\ InspectFailed
    /\ Succeeded("uyuni-inspect")
    /\ err.cause = "ReadInspectData"
    /\ inspectedValues = EmptyMap

(***************************************************************************)
(* C15: host facts are optional: no function fails because InspectHost     *)
(* gives nothing usable, and the image is pulled with credentials exactly  *)
(* when both the username and the password facts are there.                *)
(***************************************************************************)
HostInspectionFailed ==
    \/ err.cause = "InspectHost"
    \/ result.cause \in {"InspectHost", "cannot inspect host values: %s"}

C15_HostFactsOptional ==
    /\ ~HostInspectionFailed
    /\ \A i \in DOMAIN pulls : (pulls[i].args # <<>>) <=> (HostKeys \subseteq pulls[i].host)

(***************************************************************************)
(* C16: Start asks for no replica count when GetNode finds a pod and for   *)
(* 1 replica otherwise; a Start right after a Start that returned no error *)
(* returns no error, asks for nothing and leaves the cluster as the first  *)
(* left it, with a pod found.                                              *)
(***************************************************************************)
StartCalls == {i \in DOMAIN kubeLog : kubeLog[i].op = "Start"}

Called == computed # <<>>

IsNumber(s) == s # <<>> /\ \A i \in DOMAIN s : s[i] \in Digits

\* the port of the registry host, in digits, or none
HasPort(parts) == parts.host # <<>> /\ IsNumber(parts.port)

\* the tag separators of the reference: every ':' that does not start a port
TagSeparators(parts) ==
    (IF parts.host # <<>> /\ parts.port # <<>> /\ ~IsNumber(parts.port) THEN 1 ELSE 0)
    + (IF parts.tag # <<>> THEN 1 ELSE 0)
    + (IF parts.extra # <<>> THEN 1 ELSE 0)

\* host[:port]/path, with at most one tag
WellFormed(parts) ==
    /\ parts.path # <<>>
    /\ TagSeparators(parts) <= 1
    /\ parts.port # <<>> => IsNumber(parts.port)

\* the tag the reference carries, if any
TagOf(parts) == IF parts.tag # <<>> THEN parts.tag ELSE parts.extra

\* the registry host and port as written, with the '/' after them
RegistryOf(host, port) ==
    IF host = <<>> THEN <<>>
    ELSE host \o (IF port = <<>> THEN <<>> ELSE <<":">> \o port) \o <<"/">>

(***************************************************************************)
(* C17: the migration image of RunPgsqlVersionUpgrade.  None given: the    *)
(* server image with -migration-<old>-<new> after the repository name and  *)
(* before the tag, old and new being the two versions of the upgrade.  One *)
(* given: its name with no suffix.                                         *)
(***************************************************************************)
C17_MigrationImage ==
    (Called /\ computed.fn = "RunPgsqlVersionUpgrade" /\ WellFormed(computed.parts)) =>
        LET parts  == computed.parts
            infix  == <<"-", "m", "i", "g", "r", "a", "t", "i", "o", "n", "-">>
                          \o Str(computed.versions[1]) \o <<"-">> \o Str(computed.versions[2])
            tag    == IF TagOf(parts) # <<>> THEN TagOf(parts) ELSE image.tag
            repo   == RegistryOf(ToLower(parts.host), parts.port) \o parts.path
        IN  /\ computed.err = Nil
            /\ computed.migrationImage = EmptyStr =>
                  /\ parts = image.parts
                  /\ computed.image = repo \o infix \o <<":">> \o tag
            /\ computed.migrationImage # EmptyStr =>
                  /\ computed.migrationImage = Compose(parts)
                  /\ computed.image = repo \o <<":">> \o tag

\* no migration image given, the server image has a port and a tag
C17_Witness ==
    /\ Called
    /\ computed.fn = "RunPgsqlVersionUpgrade"
    /\ computed.migrationImage = EmptyStr
    /\ WellFormed(computed.parts)
    /\ HasPort(computed.parts)
    /\ computed.parts.tag # <<>>
    /\ computed.versions = <<Dec(10), Dec(11)>>
    /\ computed.err = Nil

(***************************************************************************)
(* C18: the tag of the result is the reference's own tag when it has one   *)
(* and the tag argument otherwise; the ':' of the port is not a tag        *)
(* separator; the suffix comes after the repository name, before the tag.  *)
(***************************************************************************)
C18_TagPrecedence ==
    (Called /\ WellFormed(computed.parts)) =>
        LET parts == computed.parts
            n     == Len(computed.image)
            t     == IF TagOf(parts) # <<>> THEN TagOf(parts) ELSE computed.tag
            repo  == SubSeq(computed.image, 1, n - Len(t) - 1)
        IN  /\ computed.err = Nil
            /\ n > Len(t) + 1
            /\ SubSeq(computed.image, n - Len(t) + 1, n) = t
            /\ computed.image[n - Len(t)] = ":"
            /\ Len(repo) = Len(RegistryOf(parts.host, parts.port)) + Len(parts.path)
                           + Len(computed.appendToName)
            /\ SubSeq(repo, Len(repo) - Len(computed.appendToName) + 1, Len(repo))
                   = computed.appendToName
            /\ HasPort(parts) =>
                   SubSeq(repo, Len(parts.host) + 1, Len(parts.host) + 1 + Len(parts.port))
                       = <<":">> \o parts.port

\* a port, no tag in the reference, a suffix
C18_Witness ==
    /\ Called
    /\ WellFormed(computed.parts)
    /\ HasPort(computed.parts)
    /\ TagOf(computed.parts) = <<>>
    /\ computed.appendToName # EmptyStr
    /\ computed.err = Nil
    /\ computed.image[Len(computed.image)] \in {"b", "B"}

(***************************************************************************)
(* C19: the registry host of the result is in lower case, the port, the    *)
(* path and the tag are as given, and a reference that differs only in the *)
(* case of the host gives the same result.                                 *)
(***************************************************************************)
C19_HostLowerCased ==
    (Called /\ WellFormed(computed.parts)) =>
        LET parts == computed.parts
            t     == IF TagOf(parts) # <<>> THEN TagOf(parts) ELSE computed.tag
        IN  /\ computed.image = RegistryOf(ToLower(parts.host), parts.port) \o parts.path
                                    \o computed.appendToName \o <<":">> \o t
            /\ \A host \in HostNames :
                   ToLower(host) = ToLower(parts.host) =>
                       ComputeImage(Compose([parts EXCEPT !.host = host]), computed.tag,
                                    computed.appendToName).image = computed.image

\* upper case in the host, in the path and in the tag
C19_Witness ==
    /\ Called
    /\ WellFormed(computed.parts)
    /\ \E i \in DOMAIN computed.parts.host : computed.parts.host[i] = "R"
    /\ \E i \in DOMAIN computed.parts.path : computed.parts.path[i] = "I"
    /\ computed.parts.tag = <<"T">>
    /\ computed.err = Nil

(***************************************************************************)
(* C20: a reference with more than one tag separator gives an error and    *)
(* no image, whatever the tag argument.                                    *)
(***************************************************************************)
C20_MalformedIsError ==
    (Called /\ TagSeparators(computed.parts) > 1) =>
        (computed.err # Nil /\ computed.image = EmptyStr)

\* registry:path/image:tag:tag
C20_Witness ==
    /\ Called
    /\ computed.fn = "Upgrade"
    /\ TagSeparators(computed.parts) = 3
    /\ computed.err # Nil

(***************************************************************************)
(* C22: the SSH config file and the known-hosts file are mounted into the  *)
(* migration container only for a path that is not empty, and these mounts *)
(* and the mount of the SSH agent socket are read-only.                    *)
(***************************************************************************)
SshTargets == {"dir(sshAuthSocket)", "/tmp/ssh_config", "/etc/ssh/ssh_known_hosts"}

\* the -v options of the migration container that mount SSH material
SshMounts ==
    {i \in DOMAIN migrationArgs :
        migrationArgs[i].flag = "-v" /\ migrationArgs[i].value[2] \in SshTargets}

\* source:target:ro
ReadOnly(value) == Len(value) = 3 /\ value[3] = "ro"

C22_SshMountsReadOnly ==
    \A i \in SshMounts :
        /\ migrationArgs[i].value[1] # ""
        /\ ReadOnly(migrationArgs[i].value)

(***************************************************************************)
(* C25: when the version upgrade, the finalize script or the post-upgrade  *)
(* script fails, no later helper step runs and the image reference of the  *)
(* service is left alone: only the deferred StartService is still to come. *)
(* The image reference is written only when every helper step succeeded.   *)
(***************************************************************************)
HelperStepError ==
    result.msg \in {"cannot run PostgreSQL version upgrade script: %s",
                    "cannot run post upgrade script: %s"}

C25_AbortToRestart ==
    /\ HelperStepError =>
          /\ pc \in {"deferred", "done"}
          /\ systemdImage = "deployed"
          /\ ~Has("GenerateSystemdConfFile")
          /\ ~Has("ReloadDaemon")
          /\ ~Succeeded("uyuni-post-upgrade")
    /\ \A i \in DOMAIN trace :
          (trace[i].op \in MutatingHelpers /\ ~trace[i].ok) =>
              \A j \in (i + 1)..Len(trace) : trace[j].op = "StartService"
    /\ systemdImage = "target" =>
          /\ \A h \in MutatingHelpers : ~Failed(h)
          /\ Succeeded("uyuni-finalize-pgsql")
          /\ Succeeded("uyuni-post-upgrade")
          /\ StrGreater(ImagePg, CurrentPg) => Succeeded("uyuni-upgrade-pgsql")

\* The version upgrade container failed; the service was started, Upgrade returned.
C25_Witness ==
    /\ Returned
    /\ HelperStepError
    /\ Failed("uyuni-upgrade-pgsql")
    /\ Has("StartService")
    /\ systemdImage = "deployed"

(***************************************************************************)
(* C26: the error Upgrade returns for a failed helper container names the  *)
(* step that failed: the error of a failed finalize container is not the   *)
(* error of the version upgrade, nor the one of the post-upgrade script.    *)
(***************************************************************************)
C26_ErrorNamesStep ==
    /\ Failed("uyuni-upgrade-pgsql") =>
          result.msg = "cannot run PostgreSQL version upgrade script: %s"
    /\ Failed("uyuni-post-upgrade") =>
          result.msg = "cannot run post upgrade script: %s"
    /\ Failed("uyuni-finalize-pgsql") =>
          result.msg \notin {"cannot run PostgreSQL version upgrade script: %s",
                             "cannot run post upgrade script: %s"}

(***************************************************************************)
(* C27: when StopService fails, Upgrade returns an error with no deferred  *)
(* restart: StartService is not called, no helper container is launched    *)
(* and the image reference is left alone.  When the inspection or the      *)
(* sanity check fails, StopService and StartService are not called.        *)
(***************************************************************************)
EarlyError ==
    result.msg \in {"cannot inspect podman values: %s", "SanityCheck",
                    "SanityCheck: no current_pg_version", "SanityCheck: no image_pg_version"}

C27_NoRestartWithoutStop ==
    /\ Failed("StopService") =>
          /\ result = Err("cannot stop service %s", "StopService")
          /\ Returned
          /\ ~deferArmed
          /\ ~Has("StartService")
          /\ \A h \in MutatingHelpers : ~Has(h)
          /\ systemdImage = "deployed"
    /\ EarlyError =>
          /\ Returned
          /\ ~Has("StopService")
          /\ ~Has("StartService")

\* StopService failed and Upgrade has returned.
C27_Witness ==
    /\ Returned
    /\ Failed("StopService")
    /\ Succeeded("uyuni-inspect")

(***************************************************************************)
(* C28: a Restart that returns no error has asked for 1 replica last and   *)
(* leaves the deployment at 1 replica, also when GetNode still finds the   *)
(* pod that is being stopped; when Stop fails, Start is not called and the *)
(* error of Stop is returned.                                              *)
(***************************************************************************)
RestartCalls == {i \in DOMAIN kubeLog : kubeLog[i].op = "Restart"}

C28_RestartEndsRunning ==
    \A i \in RestartCalls :
        LET call == kubeLog[i] IN
        /\ call.err = Nil =>
              /\ call.scaled # <<>>
              /\ call.scaled[Len(call.scaled)] = 1
              /\ call.after.replicas = 1
        /\ call.err # Nil /\ call.scaled = <<0>> =>
              call.err = Err("cannot stop %s: %s", "ReplicasTo")

(***************************************************************************)
(* C29: the inspect command inspects the image of the running server       *)
(* exactly when no image is given; when ComputeImage gives an error for an *)
(* image that is given, the command fails and the deployed image is not    *)
(* inspected; when the running image cannot be found, the command fails    *)
(* and the inspection is not launched.                                     *)
(***************************************************************************)
Inspected == inspection # <<>>

ImageGiven == image.name # EmptyStr

C29_InspectGivenImage ==
    Inspected =>
        /\ inspection.helper => (inspection.deployed <=> ~ImageGiven)
        /\ (ImageGiven /\ ComputeImage(image.name, image.tag, EmptyStr).err # Nil) =>
              (inspection.err # Nil /\ ~inspection.helper)
        /\ (~ImageGiven /\ ~inspection.runningOk) =>
              (inspection.err # Nil /\ ~inspection.helper)

(***************************************************************************)
(* C23: with a backend named, the closure of that backend is chosen        *)
(* whether it has a running instance or not, no backend is probed and the  *)
(* closure of the other backend is not run; in a build without kubernetes  *)
(* the kubernetes closure returns "built without kubernetes support" and   *)
(* does nothing else.                                                      *)
(***************************************************************************)
C23_ExplicitBackend ==
    \A i \in DOMAIN cmdLog :
        LET run == cmdLog[i] IN
        /\ deployment.backend # "" =>
              /\ run.chosen = deployment.backend
              /\ run.probes = <<>>
              /\ run.invoked = <<deployment.backend>>
              /\ \A k \in DOMAIN run.effects : run.effects[k].backend = deployment.backend
        /\ (~deployment.built /\ run.invoked = <<"kubectl">>) =>
              /\ run.err = Err("built without kubernetes support", "")
              /\ run.effects = <<>>

\* kubectl named, no pod running, only podman has a server
C23_Witness ==
    /\ deployment.backend = "kubectl"
    /\ ~deployment.kubectl
    /\ deployment.podman
    /\ cmdLog # <<>>
    /\ cmdLog[1].invoked = <<"kubectl">>

(***************************************************************************)
(* C24: with no backend named, podman is probed before kubectl and the     *)
(* closure of the first backend with a running instance is run, podman     *)
(* when both run one; when neither does, the selection fails and no        *)
(* closure is run.                                                         *)
(***************************************************************************)
C24_AutoDetection ==
    \A i \in DOMAIN cmdLog :
        LET run == cmdLog[i] IN
        deployment.backend = "" =>
            /\ run.probes # <<>>
            /\ run.probes[1] = "podman"
            /\ deployment.podman => (run.invoked = <<"podman">> /\ run.probes = <<"podman">>)
            /\ (~deployment.podman /\ deployment.kubectl) =>
                  (run.invoked = <<"kubectl">> /\ run.probes = <<"podman", "kubectl">>)
            /\ (~deployment.podman /\ ~deployment.kubectl) =>
                  /\ run.err = Err("no deployment found, specify backend explicitly.", "")
                  /\ run.invoked = <<>>
                  /\ run.effects = <<>>

\* both backends run a server: podman is taken
C24_Witness ==
    /\ deployment.backend = ""
    /\ deployment.podman
    /\ deployment.kubectl
    /\ cmdLog # <<>>
    /\ cmdLog[1].invoked = <<"podman">>

(***************************************************************************)
(* C21: every line that is empty with min >= 1, longer than max with       *)
(* max > 0, shorter than min or refused by the checker gets its message    *)
(* and a new prompt; the function returns with the first line that passes  *)
(* all of these, and *value is that line.                                  *)
(***************************************************************************)
Passes(c, line) ==
    /\ ~(line = <<>> /\ c.min >= 1)
    /\ ~(c.max > 0 /\ Len(line) > c.max)
    /\ Len(line) >= c.min
    /\ c.checker = "fChecker" => \E i \in DOMAIN line : line[i] = "f"

Extracting == extraction # <<>>

ExtractCalls(op, ext) ==
    {i \in DOMAIN extractLog : extractLog[i].op = op /\ extractLog[i].ext = ext}

C30_CopyBeforeRemove ==
    Extracting =>
        /\ \A ext \in {"", ".md5"} :
              /\ \A r \in ExtractCalls("rm", ext) :
                    \E c \in ExtractCalls("Copy", ext) : c < r /\ extractLog[c].ok
              /\ \A c \in ExtractCalls("Copy", ext) :
                    ~extractLog[c].ok =>
                        /\ c = Len(extractLog)
                        /\ extraction.pc = "done"
                        /\ extraction.err = Err("cannot copy tarball: %s", "Copy")
                        /\ ExtractCalls("rm", ext) = {}
        /\ extraction.pc = "done" => extraction.tmpDir \in {"none", "removed"}
        /\ extraction.pc = "done" => extraction.local = {}
        /\ extraction.archive =>
              /\ \E i \in ExtractCalls("supportconfig", "") : extractLog[i].ok
              /\ extraction.host # "failed"
              /\ \A i \in ExtractCalls("host supportconfig", "") : extractLog[i].ok

\* the tarball was copied and removed, then the copy of the .md5 file failed
C30_Witness ==
    /\ Extracting
    /\ extraction.pc = "done"
    /\ ExtractCalls("rm", "") # {}
    /\ \E c \in ExtractCalls("Copy", ".md5") : ~extractLog[c].ok
    /\ extraction.tmpDir = "removed"
    /\ ~extraction.archive

====
